---- MODULE Spec2Model ----
(***************************************************************************)
(* Model of the scrobble manager of web-scrobbler                          *)
(* (src/unnamed/part_002, scrobble-manager.ts): the registered and bound   *)
(* scrobbler arrays, the bind/unbind operations, and the asynchronous      *)
(* fan-out operations (sendNowPlaying, scrobble, toggleLove,               *)
(* bindAllScrobblers) together with the promise callbacks they install.    *)
(*                                                                         *)
(* A scrobbler object is a number; registeredScrobblers holds the objects  *)
(* 1..NumRegistered, and getId gives the ID of an object.  A call of a     *)
(* scrobbler method returns a promise that the environment settles later   *)
(* with one of the outcomes in CallOutcomes; every settlement runs the     *)
(* callback the manager attached to that promise as one atomic step.       *)
(*                                                                         *)
(* ops holds the fan-out operation being observed.  Operations interact    *)
(* only through boundScrobblers, and every write another operation can     *)
(* make to it is a bindScrobbler or an unbindScrobbler of a registered     *)
(* scrobbler, so the BindScrobbler and UnbindScrobbler steps, which may    *)
(* happen between any two callbacks, stand for the interference of every   *)
(* other operation and message handler.                                    *)
(*                                                                         *)
(* The messages of the extension controller (src/unnamed/part_001) are one *)
(* step each: a handler reads no state of the manager before its only      *)
(* await, so it is modelled at the moment the awaited scrobbler call       *)
(* settles.                                                                *)
(*                                                                         *)
(* session[s] tells whether scrobbler s holds a session: getSession()      *)
(* that succeeds leaves one, getSession() that fails and signOut() leave   *)
(* none, applyUserProperties() may clear it.  No code of the manager or    *)
(* of the controller reads it.  Spec leaves the sessions out (session is   *)
(* NotTracked throughout); SpecSession starts with no scrobbler holding a  *)
(* session and follows them.                                               *)
(***************************************************************************)
EXTENDS Integers, Sequences, FiniteSets, TLC

\* Number of scrobblers constructed in registeredScrobblers.
NumRegistered == 3

VARIABLES boundScrobblers, ops, session, util, extension

\* The state of the scrobblers themselves, which the manager does not read.
scrobblerVars == <<session>>

\* The value of session when the sessions are not followed.
NotTracked == <<>>

\* The sessions after the scrobbler got or lost its session.
setSession(sessions, scrobbler, valid) ==
    IF sessions = NotTracked
    THEN sessions
    ELSE [sessions EXCEPT ![scrobbler] = valid]

\* The call of Util.stringToSeconds being observed, which the manager and
\* the controller have no part in.
utilVars == <<util>>

\* What the extension controller has done in the browser, which the manager
\* has no part in.
extensionVars == <<extension>>

vars == <<boundScrobblers, ops, session, util, extension>>

----------------------------------------------------------------------------
(* Scrobblers and results *)

registeredScrobblers == [i \in 1..NumRegistered |-> i]

Regs == {registeredScrobblers[i] : i \in 1..NumRegistered}

\* The ID of a scrobbler object (LastFm, LibreFm, ListenBrainz are 1, 2, 3).
getId(scrobbler) == ((scrobbler - 1) % NumRegistered) + 1

OK == "OK"
ERROR_AUTH == "ERROR_AUTH"
ERROR_OTHER == "ERROR_OTHER"
\* A rejection value that is neither ERROR_AUTH nor ERROR_OTHER.
INVALID == "INVALID"
\* The Error thrown by processErrorResult ('Invalid result').
InvalidResultError == "Error: Invalid result"

\* What the promise returned by a scrobbler method can settle with.
CallOutcomes == {OK, ERROR_AUTH, ERROR_OTHER, INVALID}

Range(s) == {s[i] : i \in 1..Len(s)}

----------------------------------------------------------------------------
(* Array helpers of the manager *)

isScrobblerInArray(scrobbler, array) ==
    \E i \in 1..Len(array) : getId(array[i]) = getId(scrobbler)

\* Array.prototype.indexOf: zero-based index of the first element that is
\* the same object, -1 when there is none.
indexOf(array, scrobbler) ==
    IF \E i \in 1..Len(array) : array[i] = scrobbler
    THEN (CHOOSE i \in 1..Len(array) :
             /\ array[i] = scrobbler
             /\ \A j \in 1..(i - 1) : array[j] # scrobbler) - 1
    ELSE -1

\* Array.prototype.splice(index, 1): a negative index counts from the end.
splice(array, index) ==
    LET len == Len(array)
        start == IF index < 0
                 THEN (IF len + index < 0 THEN 0 ELSE len + index)
                 ELSE (IF index > len THEN len ELSE index)
    IN  IF start >= len
        THEN array
        ELSE [i \in 1..(len - 1) |->
                 IF i <= start THEN array[i] ELSE array[i + 1]]

\* unbindScrobbler with the index of the last element in place of the index
\* of the scrobbler.
unbindScrobblerLast(array, scrobbler) ==
    IF isScrobblerInArray(scrobbler, array)
    THEN splice(array, Len(array) - 1)
    ELSE array

\* unbindScrobbler without the test that the scrobbler is bound.
unbindScrobblerUnchecked(array, scrobbler) ==
    splice(array, indexOf(array, scrobbler))

\* bindScrobbler without the test that the scrobbler is not bound yet.
bindScrobblerAlways(array, scrobbler) == Append(array, scrobbler)

bindScrobbler(array, scrobbler) ==
    IF ~isScrobblerInArray(scrobbler, array)
    THEN Append(array, scrobbler)
    ELSE array

unbindScrobbler(array, scrobbler) ==
    IF isScrobblerInArray(scrobbler, array)
    THEN splice(array, indexOf(array, scrobbler))
    ELSE array

----------------------------------------------------------------------------
(* Promises *)

\* One element of the array handed to Promise.all, or one iteration of the
\* loop of bindAllScrobblers.
\*   call  : what the scrobbler's own promise settled with ("idle" before
\*           the method is called, "pending" while it is in flight)
\*   ready : whether the scrobbler is ready for grant access when the call
\*           fails with an auth error, which is what its
\*           isReadyForGrantAccess() answers
\*   state : state of the promise the manager derived from the call
\*   value : the value or reason that promise settled with
NewSlot == [call |-> "pending", ready |-> FALSE,
            state |-> "pending", value |-> "NONE"]

IdleSlot == [call |-> "idle", ready |-> FALSE,
             state |-> "idle", value |-> "NONE"]

Settled(slot) == slot.state \in {"fulfilled", "rejected"}

\* Promise.all over the derived promises: rejects with the first rejection,
\* fulfils with all the values, in order, once every element is fulfilled.
PromiseAll(status, value, slots) ==
    IF status # "pending"
    THEN [status |-> status, value |-> value]
    ELSE IF \E i \in 1..Len(slots) : slots[i].state = "rejected"
    THEN [status |-> "rejected",
          value |-> <<slots[CHOOSE i \in 1..Len(slots) :
                               slots[i].state = "rejected"].value>>]
    ELSE IF \A i \in 1..Len(slots) : slots[i].state = "fulfilled"
    THEN [status |-> "resolved",
          value |-> [i \in 1..Len(slots) |-> slots[i].value]]
    ELSE [status |-> "pending", value |-> value]

\* A fan-out operation over the given scrobblers, as built by
\* Promise.all(scrobblers.map(...)).
FanOut(kind, scrobblers) ==
    LET slots == [i \in 1..Len(scrobblers) |-> NewSlot]
        all == PromiseAll("pending", <<>>, slots)
    IN  [kind |-> kind, targets |-> scrobblers, slots |-> slots,
         status |-> all.status, value |-> all.value]

WithSlots(op, slots) ==
    LET all == PromiseAll(op.status, op.value, slots)
    IN  [op EXCEPT !.slots = slots, !.status = all.status,
                   !.value = all.value]

----------------------------------------------------------------------------
(* processErrorResult *)

\* processErrorResult without the check for an unclassified result.
processErrorResultAbsorb(slot, result) ==
    IF result = ERROR_AUTH
    THEN [slot EXCEPT !.state = "isReady", !.value = result]
    ELSE [slot EXCEPT !.state = "fulfilled", !.value = result]

\* processErrorResult asking isReadyForGrantAccess() for every classified
\* error.
processErrorResultAnyError(slot, result) ==
    IF ~(result = ERROR_OTHER \/ result = ERROR_AUTH)
    THEN [slot EXCEPT !.state = "rejected", !.value = InvalidResultError]
    ELSE [slot EXCEPT !.state = "isReady", !.value = result]

\* The part of processErrorResult up to its first await: the promise it
\* returns is rejected for an unclassified result, waits for
\* isReadyForGrantAccess() on an auth error, and is fulfilled with the
\* result otherwise.
processErrorResult(slot, result) ==
    LET isOtherError == result = ERROR_OTHER
        isAuthError == result = ERROR_AUTH
    IN  IF ~(isOtherError \/ isAuthError)
        THEN [slot EXCEPT !.state = "rejected", !.value = InvalidResultError]
        ELSE IF isAuthError
        THEN [slot EXCEPT !.state = "isReady", !.value = result]
        ELSE [slot EXCEPT !.state = "fulfilled", !.value = result]

\* processErrorResult unbinding on every auth error.
processErrorResultUnbindAlways(array, scrobbler, isReady) ==
    unbindScrobbler(array, scrobbler)

\* The bound array after processErrorResult resumes with the answer of
\* isReadyForGrantAccess().
processErrorResultUnbind(array, scrobbler, isReady) ==
    IF ~isReady THEN unbindScrobbler(array, scrobbler) ELSE array

\* The callback without the catch: the rejection is passed on.
catchProcessErrorResultMissing(slot, outcome) ==
    IF outcome = OK
    THEN [slot EXCEPT !.state = "fulfilled", !.value = outcome]
    ELSE [slot EXCEPT !.state = "rejected", !.value = outcome]

\* The callback of sendNowPlaying and toggleLove: .catch(result =>
\* this.processErrorResult(scrobbler, result)) on the scrobbler's promise.
catchProcessErrorResult(slot, outcome) ==
    IF outcome = OK
    THEN [slot EXCEPT !.state = "fulfilled", !.value = outcome]
    ELSE processErrorResult(slot, outcome)

\* The async callback of sendScrobbleRequest: the scrobbler's promise is
\* returned from inside the try block without being awaited, so the promise
\* of the callback adopts it and the catch clause does not see a rejection.
sendScrobbleRequestCallback(slot, outcome) ==
    IF outcome = OK
    THEN [slot EXCEPT !.state = "fulfilled", !.value = outcome]
    ELSE [slot EXCEPT !.state = "rejected", !.value = outcome]

----------------------------------------------------------------------------
(* Util.stringToSeconds *)

\* A string is the sequence of its characters; the argument may be null.
NullString == [isNull |-> TRUE, chars |-> <<>>]

Str(chars) == [isNull |-> FALSE, chars |-> chars]

Digits == <<"0", "1", "2", "3", "4", "5", "6", "7", "8", "9">>

IsDigit(c) == \E d \in 1..Len(Digits) : Digits[d] = c

DigitValue(c) == (CHOOSE d \in 1..Len(Digits) : Digits[d] = c) - 1

RECURSIVE trimStart(_)
trimStart(chars) ==
    IF chars # <<>> /\ chars[1] = " " THEN trimStart(Tail(chars)) ELSE chars

RECURSIVE trimEnd(_)
trimEnd(chars) ==
    IF chars # <<>> /\ chars[Len(chars)] = " "
    THEN trimEnd(SubSeq(chars, 1, Len(chars) - 1))
    ELSE chars

trim(chars) == trimEnd(trimStart(chars))

\* The fields between the colons.
RECURSIVE split(_)
split(chars) ==
    IF \E k \in 1..Len(chars) : chars[k] = ":"
    THEN LET k == CHOOSE k \in 1..Len(chars) :
                      /\ chars[k] = ":"
                      /\ \A j \in 1..(k - 1) : chars[j] # ":"
         IN  <<SubSeq(chars, 1, k - 1)>>
                 \o split(SubSeq(chars, k + 1, Len(chars)))
    ELSE <<chars>>

\* The number written by a sequence of decimal digits.
RECURSIVE parseInt(_)
parseInt(chars) ==
    IF chars = <<>>
    THEN 0
    ELSE parseInt(SubSeq(chars, 1, Len(chars) - 1)) * 10
             + DigitValue(chars[Len(chars)])

\* The seconds of the fields hours, minutes, seconds, or minutes, seconds,
\* or seconds.
RECURSIVE toSeconds(_)
toSeconds(fields) ==
    IF fields = <<>>
    THEN 0
    ELSE toSeconds(SubSeq(fields, 1, Len(fields) - 1)) * 60
             + parseInt(fields[Len(fields)])

\* One to three fields, each of one digit at least and of digits only.
isTimeFormat(fields) ==
    /\ Len(fields) \in 1..3
    /\ \A f \in 1..Len(fields) :
           /\ fields[f] # <<>>
           /\ \A k \in 1..Len(fields[f]) : IsDigit(fields[f][k])

\* The sign left out.
applySignIgnored(negative, seconds) == seconds

applySign(negative, seconds) == IF negative THEN -seconds ELSE seconds

stringToSeconds(str) ==
    IF str.isNull
    THEN 0
    ELSE LET trimmed == trim(str.chars)
             negative == trimmed # <<>> /\ trimmed[1] = "-"
             fields == split(IF negative THEN Tail(trimmed) ELSE trimmed)
         IN  IF isTimeFormat(fields)
             THEN applySign(negative, toSeconds(fields))
             ELSE 0

----------------------------------------------------------------------------
(* Initial state *)

Init ==
    /\ boundScrobblers = <<>>
    /\ ops = <<>>
    /\ session = NotTracked
    /\ util = <<>>
    /\ extension = NotTracked

----------------------------------------------------------------------------
(* Synchronous operations of the manager *)

BindScrobbler(scrobbler) ==
    /\ boundScrobblers' = bindScrobbler(boundScrobblers, scrobbler)
    /\ UNCHANGED <<ops, scrobblerVars, utilVars, extensionVars>>

UnbindScrobbler(scrobbler) ==
    /\ boundScrobblers' = unbindScrobbler(boundScrobblers, scrobbler)
    /\ UNCHANGED <<ops, scrobblerVars, utilVars, extensionVars>>

----------------------------------------------------------------------------
(* Fan-out operations *)

SendNowPlaying ==
    /\ ops = <<>>
    /\ ops' = Append(ops, FanOut("sendNowPlaying", boundScrobblers))
    /\ UNCHANGED <<boundScrobblers, scrobblerVars, utilVars, extensionVars>>

Scrobble ==
    /\ ops = <<>>
    /\ ops' = Append(ops, FanOut("scrobble", boundScrobblers))
    /\ UNCHANGED <<boundScrobblers, scrobblerVars, utilVars, extensionVars>>

\* toggleLove filtering the bound scrobblers.
toggleLoveScrobblersBound(canLove) ==
    SelectSeq(boundScrobblers, LAMBDA s : canLove[s])

\* The scrobblers toggleLove is sent to: registeredScrobblers.filter(
\* scrobbler => scrobbler.canLoveSong()).
toggleLoveScrobblers(canLove) ==
    SelectSeq(registeredScrobblers, LAMBDA s : canLove[s])

\* canLove is the answer of canLoveSong() of each registered scrobbler.
ToggleLove(canLove) ==
    /\ ops = <<>>
    /\ ops' = Append(ops, FanOut("toggleLove", toggleLoveScrobblers(canLove)))
    /\ UNCHANGED <<boundScrobblers, scrobblerVars, utilVars, extensionVars>>

\* The promise of scrobbler.sendNowPlaying() or scrobbler.toggleLove()
\* settles.
CallSettles(o, i, outcome, ready) ==
    /\ o \in DOMAIN ops
    /\ i \in DOMAIN ops[o].slots
    /\ ops[o].kind \in {"sendNowPlaying", "toggleLove"}
    /\ ops[o].slots[i].call = "pending"
    /\ ready => outcome = ERROR_AUTH
    /\ LET slot == [ops[o].slots[i] EXCEPT !.call = outcome, !.ready = ready]
           slots == [ops[o].slots EXCEPT
                        ![i] = catchProcessErrorResult(slot, outcome)]
       IN  ops' = [ops EXCEPT ![o] = WithSlots(ops[o], slots)]
    /\ UNCHANGED <<boundScrobblers, scrobblerVars, utilVars, extensionVars>>

\* The promise of scrobbler.scrobble() settles.
ScrobbleSettles(o, i, outcome, ready) ==
    /\ o \in DOMAIN ops
    /\ i \in DOMAIN ops[o].slots
    /\ ops[o].kind \in {"scrobble", "scrobbleWithScrobblers"}
    /\ ops[o].slots[i].call = "pending"
    /\ ready => outcome = ERROR_AUTH
    /\ LET slot == [ops[o].slots[i] EXCEPT !.call = outcome, !.ready = ready]
           slots == [ops[o].slots EXCEPT
                        ![i] = sendScrobbleRequestCallback(slot, outcome)]
       IN  ops' = [ops EXCEPT ![o] = WithSlots(ops[o], slots)]
    /\ UNCHANGED <<boundScrobblers, scrobblerVars, utilVars, extensionVars>>

\* The promise of scrobbler.isReadyForGrantAccess() settles and
\* processErrorResult runs to its end.
IsReadySettles(o, i) ==
    /\ o \in DOMAIN ops
    /\ i \in DOMAIN ops[o].slots
    /\ ops[o].slots[i].state = "isReady"
    /\ boundScrobblers' =
           processErrorResultUnbind(boundScrobblers, ops[o].targets[i],
                                    ops[o].slots[i].ready)
    /\ LET slots == [ops[o].slots EXCEPT ![i].state = "fulfilled"]
       IN  ops' = [ops EXCEPT ![o] = WithSlots(ops[o], slots)]
    /\ UNCHANGED <<scrobblerVars, utilVars, extensionVars>>

----------------------------------------------------------------------------
(* getSongInfo *)

\* The song info a scrobbler loaded, and the null that stands for a failure.
SONG_INFO == "SONG_INFO"

NoSongInfo == "null"

\* The scrobblers getSongInfo is sent to: registeredScrobblers.filter(
\* scrobbler => scrobbler.canLoadSongInfo()).
getSongInfoScrobblers(canLoad) ==
    SelectSeq(registeredScrobblers, LAMBDA s : canLoad[s])

\* canLoad is the answer of canLoadSongInfo() of each registered scrobbler.
GetSongInfo(canLoad) ==
    /\ ops = <<>>
    /\ ops' = Append(ops, FanOut("getSongInfo", getSongInfoScrobblers(canLoad)))
    /\ UNCHANGED <<boundScrobblers, scrobblerVars, utilVars, extensionVars>>

\* The callback handling a failure the way the dispatches do.
getSongInfoCallbackClassify(slot, outcome) ==
    catchProcessErrorResult(slot, outcome)

\* The callback of getSongInfo: .catch(() => null) on the scrobbler's
\* promise.
getSongInfoCallback(slot, outcome) ==
    IF outcome = OK
    THEN [slot EXCEPT !.state = "fulfilled", !.value = SONG_INFO]
    ELSE [slot EXCEPT !.state = "fulfilled", !.value = NoSongInfo]

\* The promise of scrobbler.getSongInfo() settles.
GetSongInfoSettles(o, i, outcome) ==
    /\ o \in DOMAIN ops
    /\ i \in DOMAIN ops[o].slots
    /\ ops[o].kind = "getSongInfo"
    /\ ops[o].slots[i].call = "pending"
    /\ LET slot == [ops[o].slots[i] EXCEPT !.call = outcome]
           slots == [ops[o].slots EXCEPT
                        ![i] = getSongInfoCallback(slot, outcome)]
       IN  ops' = [ops EXCEPT ![o] = WithSlots(ops[o], slots)]
    /\ UNCHANGED <<boundScrobblers, scrobblerVars, utilVars, extensionVars>>

----------------------------------------------------------------------------
(* bindAllScrobblers *)

\* bindAllScrobblers once its loop has reached the first await.
bindAllScrobblersCall ==
    [kind |-> "bindAllScrobblers",
     targets |-> registeredScrobblers,
     slots |-> [i \in 1..NumRegistered |->
                   IF i = 1 THEN NewSlot ELSE IdleSlot],
     status |-> "pending", value |-> <<>>]

\* The call of bindAllScrobblers: the loop reaches the first await.
BindAllScrobblers ==
    /\ ops = <<>>
    /\ ops' = Append(ops, bindAllScrobblersCall)
    /\ UNCHANGED <<boundScrobblers, scrobblerVars, utilVars, extensionVars>>

\* The iteration binding the scrobbler whatever getSession() settled with.
bindAllIterationAlways(array, scrobbler, outcome) ==
    bindScrobbler(array, scrobbler)

\* What one iteration of the loop does to the bound array once getSession()
\* has settled.
bindAllIteration(array, scrobbler, outcome) ==
    IF outcome = OK THEN bindScrobbler(array, scrobbler) ELSE array

\* The slots after iteration i: the next iteration calls getSession().
bindAllAdvance(slots, i, outcome) ==
    [j \in 1..Len(slots) |->
        IF j = i
        THEN [slots[j] EXCEPT !.call = outcome,
                 !.state = IF outcome = OK THEN "fulfilled" ELSE "caught",
                 !.value = outcome]
        ELSE IF j = i + 1 THEN NewSlot
        ELSE slots[j]]

\* The promise of scrobbler.getSession() settles.
GetSessionSettles(o, i, outcome) ==
    /\ o \in DOMAIN ops
    /\ i \in DOMAIN ops[o].slots
    /\ ops[o].kind = "bindAllScrobblers"
    /\ ops[o].slots[i].call = "pending"
    /\ boundScrobblers' =
           bindAllIteration(boundScrobblers, ops[o].targets[i], outcome)
    /\ LET slots == bindAllAdvance(ops[o].slots, i, outcome)
       IN  ops' = [ops EXCEPT ![o] =
                      IF i = Len(slots)
                      THEN [@ EXCEPT !.slots = slots, !.status = "resolved",
                                     !.value = boundScrobblers']
                      ELSE [@ EXCEPT !.slots = slots]]
    /\ session' = setSession(session, getId(ops[o].targets[i]),
                              outcome = OK)
    /\ UNCHANGED <<utilVars, extensionVars>>

----------------------------------------------------------------------------
(* The caller takes the result *)

Finished(op) ==
    /\ op.status # "pending"
    /\ \A i \in 1..Len(op.slots) :
           op.slots[i].state \in {"fulfilled", "rejected", "caught"}

\* The operation has settled and none of its callbacks is outstanding.
Return(o) ==
    /\ o \in DOMAIN ops
    /\ Finished(ops[o])
    /\ ops' = [j \in 1..(Len(ops) - 1) |->
                  IF j < o THEN ops[j] ELSE ops[j + 1]]
    /\ UNCHANGED <<boundScrobblers, scrobblerVars, utilVars, extensionVars>>

----------------------------------------------------------------------------
(* Messages to the extension controller *)

\* What getScrobblerById returns for an ID of no registered scrobbler.
NULL == 0

\* The IDs of the registered scrobblers, and an ID none of them has.
Ids == {getId(s) : s \in Regs}

UnknownId == NumRegistered + 1

\* getScrobblerById making a scrobbler for the ID in place of looking one up.
getScrobblerByIdNew(scrobblerId) == scrobblerId + NumRegistered

getScrobblerById(scrobblerId) ==
    IF \E i \in 1..NumRegistered : getId(registeredScrobblers[i]) = scrobblerId
    THEN registeredScrobblers[
             CHOOSE i \in 1..NumRegistered :
                 /\ getId(registeredScrobblers[i]) = scrobblerId
                 /\ \A j \in 1..(i - 1) :
                        getId(registeredScrobblers[j]) # scrobblerId]
    ELSE NULL

\* Most SignIn requests followed while the browser is followed.
MaxSignIns == 2

\* What the controller has done in the browser, when it is followed:
\*   pc                : where start() is ("idle" before it is called,
\*                       "binding" in bindScrobblers, "notify" in
\*                       showAuthNotification, "done" after)
\*   authDisplayCount  : the count in the notification storage
\*   authNotifications : auth notifications shown
\*   accountsTabs      : accounts tabs opened by the fallback
\*   authTabs          : the scrobblers whose auth URL was opened in a tab
\*   signInErrors      : the scrobblers a sign-in error was shown for
\*   reply             : what the promise of the last processMessage
\*                       settled with
NewExtension ==
    [pc |-> "idle", authDisplayCount |-> 0, authNotifications |-> 0,
     accountsTabs |-> 0, authTabs |-> <<>>, signInErrors |-> <<>>,
     reply |-> "none"]

\* The promise processMessage returned to the sender settles.
sendResponse(ext, reply) ==
    IF ext = NotTracked THEN ext ELSE [ext EXCEPT !.reply = reply]

signInsLeft(ext) ==
    IF ext = NotTracked
    THEN TRUE
    ELSE Len(ext.authTabs) + Len(ext.signInErrors) < MaxSignIns

\* What authenticateScrobbler does in the browser: browser.tabs.create
\* with the auth URL, or showSignInError from the catch clause.
authenticateScrobblerBrowser(ext, scrobbler, gotAuthUrl) ==
    IF ext = NotTracked
    THEN ext
    ELSE IF gotAuthUrl
    THEN [ext EXCEPT !.authTabs = Append(@, getId(scrobbler))]
    ELSE [ext EXCEPT !.signInErrors = Append(@, getId(scrobbler))]

\* authenticateScrobbler binding the scrobbler whether or not getAuthUrl()
\* succeeded.
authenticateScrobblerAlways(array, scrobbler, gotAuthUrl) ==
    bindScrobbler(array, scrobbler)

\* Request.SignIn: authenticateScrobbler binds the scrobbler once
\* getAuthUrl() has succeeded and shows an error otherwise.
authenticateScrobbler(array, scrobbler, gotAuthUrl) ==
    IF gotAuthUrl THEN bindScrobbler(array, scrobbler) ELSE array

SignIn(scrobblerId, gotAuthUrl) ==
    LET scrobbler == getScrobblerById(scrobblerId)
    IN  /\ signInsLeft(extension)
        /\ boundScrobblers' =
               IF scrobbler = NULL
               THEN boundScrobblers
               ELSE authenticateScrobbler(boundScrobblers, scrobbler,
                                          gotAuthUrl)
        /\ UNCHANGED <<ops, session, utilVars>>
        /\ extension' =
               sendResponse(IF scrobbler = NULL
                            THEN extension
                            ELSE authenticateScrobblerBrowser(
                                     extension, scrobbler, gotAuthUrl),
                            "undefined")

\* Request.SignOut: scrobbler.signOut() clears the session.
SignOut(scrobblerId) ==
    LET scrobbler == getScrobblerById(scrobblerId)
    IN  /\ session' =
               IF scrobbler = NULL
               THEN session
               ELSE setSession(session, getId(scrobbler), FALSE)
        /\ UNCHANGED <<boundScrobblers, ops, utilVars>>
        /\ extension' = sendResponse(extension, "undefined")

\* Request.ApplyUserProperties: the scrobbler is bound once
\* applyUserProperties() has succeeded; the new properties invalidate the
\* session when they affect authentication.
applyUserProperties(array, scrobbler, applied) ==
    IF applied THEN bindScrobbler(array, scrobbler) ELSE array

ApplyUserProperties(scrobblerId, applied, affectsAuth) ==
    LET scrobbler == getScrobblerById(scrobblerId)
    IN  /\ boundScrobblers' =
               IF scrobbler = NULL
               THEN boundScrobblers
               ELSE applyUserProperties(boundScrobblers, scrobbler, applied)
        /\ session' =
               IF scrobbler # NULL /\ applied /\ affectsAuth
               THEN setSession(session, getId(scrobbler), FALSE)
               ELSE session
        /\ UNCHANGED <<ops, utilVars>>
        /\ extension' =
               sendResponse(extension,
                            IF scrobbler # NULL /\ ~applied
                            THEN "rejected"
                            ELSE "undefined")

----------------------------------------------------------------------------
(* Extension.start *)

\* How many times to show the auth notification.
authNotificationDisplayCount == 3

\* The check that lets every start show the notification.
isAuthNotificationAllowedAlways(authDisplayCount) == TRUE

isAuthNotificationAllowed(authDisplayCount) ==
    authDisplayCount < authNotificationDisplayCount

updateAuthDisplayCount(authDisplayCount) == authDisplayCount + 1

\* showAuthNotification: when allowed, the notification is shown, or the
\* accounts tab is opened from the catch clause where notifications are
\* not supported, and the stored count is updated.
showAuthNotification(ext, supported) ==
    IF isAuthNotificationAllowed(ext.authDisplayCount)
    THEN [ext EXCEPT
             !.authNotifications = IF supported THEN @ + 1 ELSE @,
             !.accountsTabs = IF supported THEN @ ELSE @ + 1,
             !.authDisplayCount = updateAuthDisplayCount(@),
             !.pc = "done"]
    ELSE [ext EXCEPT !.pc = "done"]

\* start() is called and reaches the await in bindScrobblers.
Start ==
    /\ extension # NotTracked
    /\ extension.pc = "idle"
    /\ ops = <<>>
    /\ ops' = Append(ops, bindAllScrobblersCall)
    /\ extension' = [extension EXCEPT !.pc = "binding"]
    /\ UNCHANGED <<boundScrobblers, scrobblerVars, utilVars>>

\* bindAllScrobblers has resolved: bindScrobblers returns whether the array
\* it resolved with has an element, and start() calls showAuthNotification
\* if it has none.
BindScrobblersReturns ==
    /\ extension # NotTracked
    /\ extension.pc = "binding"
    /\ ops # <<>>
    /\ ops[1].status = "resolved"
    /\ ops' = <<>>
    /\ extension' = [extension EXCEPT
                         !.pc = IF Len(ops[1].value) > 0
                                THEN "done" ELSE "notify"]
    /\ UNCHANGED <<boundScrobblers, scrobblerVars, utilVars>>

\* showAuthNotification runs; supported tells whether the browser shows
\* notifications.
ShowAuthNotification(supported) ==
    /\ extension # NotTracked
    /\ extension.pc = "notify"
    /\ extension' = showAuthNotification(extension, supported)
    /\ UNCHANGED <<boundScrobblers, ops, scrobblerVars, utilVars>>

\* The extension is stopped and loaded again: the manager starts with
\* nothing bound, the notification storage is kept.
Restart ==
    /\ extension # NotTracked
    /\ extension.pc = "done"
    /\ boundScrobblers' = <<>>
    /\ ops' = <<>>
    /\ extension' = [extension EXCEPT !.pc = "idle"]
    /\ UNCHANGED <<scrobblerVars, utilVars>>

----------------------------------------------------------------------------
(* scrobbleWithScrobblers *)

\* Longest list of scrobbler IDs handed to scrobbleWithScrobblers.
MaxIds == 2

\* The lists of IDs scrobbleWithScrobblers is called with: any IDs, in any
\* order, repeated or not, among them an ID of no registered scrobbler.
IdLists == UNION {[1..n -> Ids \cup {UnknownId}] : n \in 0..MaxIds}

\* The TypeError of a call of a method of null, or of result.is() on a
\* value that is no ApiCallResult.
TypeError == "TypeError"

\* The element of sendScrobbleRequest for a scrobbler that is null:
\* scrobbler.scrobble() throws inside the try block, the catch clause hands
\* the TypeError to processErrorResult, where result.is() throws, so the
\* promise of the callback is rejected before any call has settled.
NullSlot == [call |-> TypeError, ready |-> FALSE,
             state |-> "rejected", value |-> TypeError]

\* Promise.all(scrobblers.map(async (scrobbler) => ...)) of
\* sendScrobbleRequest for scrobblers that may be null.
sendScrobbleRequest(kind, scrobblers) ==
    LET slots == [i \in 1..Len(scrobblers) |->
                     IF scrobblers[i] = NULL THEN NullSlot ELSE NewSlot]
        all == PromiseAll("pending", <<>>, slots)
    IN  [kind |-> kind, targets |-> scrobblers, slots |-> slots,
         status |-> all.status, value |-> all.value]

\* scrobblerIds.map((id) => this.getScrobblerById(id)).
scrobblersById(scrobblerIds) ==
    [i \in 1..Len(scrobblerIds) |-> getScrobblerById(scrobblerIds[i])]

ScrobbleWithScrobblers(scrobblerIds) ==
    /\ ops = <<>>
    /\ ops' = Append(ops, sendScrobbleRequest("scrobbleWithScrobblers",
                                              scrobblersById(scrobblerIds)))
    /\ UNCHANGED <<boundScrobblers, scrobblerVars, utilVars, extensionVars>>

----------------------------------------------------------------------------

\* The positions an operation can have in ops, and a slot in an operation.
OpIds == {1}

SlotIds == 1..NumRegistered

Next ==
    \/ \E s \in Regs : BindScrobbler(s)
    \/ \E s \in Regs : UnbindScrobbler(s)
    \/ SendNowPlaying
    \/ Scrobble
    \/ \E canLove \in [Regs -> BOOLEAN] : ToggleLove(canLove)
    \/ \E canLoad \in [Regs -> BOOLEAN] : GetSongInfo(canLoad)
    \/ \E scrobblerIds \in IdLists : ScrobbleWithScrobblers(scrobblerIds)
    \/ BindAllScrobblers
    \/ \E o \in OpIds, i \in SlotIds, outcome \in CallOutcomes,
          ready \in BOOLEAN : CallSettles(o, i, outcome, ready)
    \/ \E o \in OpIds, i \in SlotIds, outcome \in CallOutcomes,
          ready \in BOOLEAN : ScrobbleSettles(o, i, outcome, ready)
    \/ \E o \in OpIds, i \in SlotIds, outcome \in CallOutcomes :
           GetSongInfoSettles(o, i, outcome)
    \/ \E o \in OpIds, i \in SlotIds : IsReadySettles(o, i)
    \/ \E o \in OpIds, i \in SlotIds, outcome \in CallOutcomes :
           GetSessionSettles(o, i, outcome)
    \/ \E o \in OpIds : Return(o)
    \/ \E id \in Ids \cup {UnknownId}, gotAuthUrl \in BOOLEAN :
           SignIn(id, gotAuthUrl)
    \/ \E id \in Ids \cup {UnknownId} : SignOut(id)
    \/ \E id \in Ids \cup {UnknownId}, applied \in BOOLEAN,
          affectsAuth \in BOOLEAN :
           ApplyUserProperties(id, applied, affectsAuth)

Spec == Init /\ [][Next]_vars

----------------------------------------------------------------------------
(* The scrobblers' sessions followed through startup binding, the messages
   and a dispatch *)

InitSession ==
    /\ boundScrobblers = <<>>
    /\ ops = <<>>
    /\ session = [s \in Ids |-> FALSE]
    /\ util = <<>>
    /\ extension = NotTracked

NextSession ==
    \/ BindAllScrobblers
    \/ \E o \in OpIds, i \in SlotIds, outcome \in CallOutcomes :
           GetSessionSettles(o, i, outcome)
    \/ SendNowPlaying
    \/ \E o \in OpIds, i \in SlotIds, outcome \in CallOutcomes,
          ready \in BOOLEAN : CallSettles(o, i, outcome, ready)
    \/ \E o \in OpIds, i \in SlotIds : IsReadySettles(o, i)
    \/ \E o \in OpIds : Return(o)
    \/ \E id \in Ids \cup {UnknownId}, gotAuthUrl \in BOOLEAN :
           SignIn(id, gotAuthUrl)
    \/ \E id \in Ids \cup {UnknownId} : SignOut(id)
    \/ \E id \in Ids \cup {UnknownId}, applied \in BOOLEAN,
          affectsAuth \in BOOLEAN :
           ApplyUserProperties(id, applied, affectsAuth)

SpecSession == InitSession /\ [][NextSession]_vars

----------------------------------------------------------------------------
(* The manager called with scrobbler objects that are other instances of
   the registered scrobbler classes: same ID, different object *)

Aliases == {s + NumRegistered : s \in Regs}

Objects == Regs \cup Aliases

NextAlias ==
    \/ \E s \in Objects : BindScrobbler(s)
    \/ \E s \in Objects : UnbindScrobbler(s)
    \/ BindAllScrobblers
    \/ \E o \in OpIds, i \in SlotIds, outcome \in CallOutcomes :
           GetSessionSettles(o, i, outcome)
    \/ \E o \in OpIds : Return(o)

SpecAlias == Init /\ [][NextAlias]_vars

----------------------------------------------------------------------------
(* Two dispatches in flight at once: a second sendNowPlaying or toggleLove
   is called while the callbacks of the first are outstanding, and the
   callbacks of the two run in any order.  Scrobblers are bound before the
   first dispatch; the calls succeed or fail with an auth error while the
   scrobbler is not ready for grant access. *)

RaceOpIds == {1, 2}

RaceOutcomes == {OK, ERROR_AUTH}

\* sendNowPlaying called while another operation is in flight.
SecondSendNowPlaying ==
    /\ Len(ops) = 1
    /\ ops' = Append(ops, FanOut("sendNowPlaying", boundScrobblers))
    /\ UNCHANGED <<boundScrobblers, scrobblerVars, utilVars, extensionVars>>

\* toggleLove called while another operation is in flight.
SecondToggleLove(canLove) ==
    /\ Len(ops) = 1
    /\ ops' = Append(ops, FanOut("toggleLove", toggleLoveScrobblers(canLove)))
    /\ UNCHANGED <<boundScrobblers, scrobblerVars, utilVars, extensionVars>>

NextRace ==
    \/ \E s \in Regs : ops = <<>> /\ BindScrobbler(s)
    \/ SendNowPlaying
    \/ \E canLove \in [Regs -> BOOLEAN] : ToggleLove(canLove)
    \/ SecondSendNowPlaying
    \/ \E canLove \in [Regs -> BOOLEAN] : SecondToggleLove(canLove)
    \/ \E o \in RaceOpIds, i \in SlotIds, outcome \in RaceOutcomes :
           CallSettles(o, i, outcome, FALSE)
    \/ \E o \in RaceOpIds, i \in SlotIds : IsReadySettles(o, i)
    \/ \E o \in RaceOpIds : Return(o)

SpecRace == Init /\ [][NextRace]_vars

----------------------------------------------------------------------------
(* Util.stringToSeconds applied to duration strings: one to three two-digit
   fields, with or without a minus sign in front, with or without a space
   before or after, and the empty string, a string that is no duration, and
   null *)

FieldValues == {1, 5, 10, 20, 30}

FieldLists == UNION {[1..n -> FieldValues] : n \in 1..3}

Pads == {<<>>, <<" ">>}

TwoDigits(n) == <<Digits[(n \div 10) + 1], Digits[(n % 10) + 1]>>

RECURSIVE Joined(_)
Joined(fieldList) ==
    IF Len(fieldList) = 1
    THEN TwoDigits(fieldList[1])
    ELSE TwoDigits(fieldList[1]) \o <<":">> \o Joined(Tail(fieldList))

Formatted(negative, fieldList, before, after) ==
    before \o (IF negative THEN <<"-">> ELSE <<>>) \o Joined(fieldList)
        \o after

TimeStrings ==
    {Str(Formatted(negative, fieldList, before, after)) :
        negative \in BOOLEAN, fieldList \in FieldLists,
        before \in Pads, after \in Pads}
    \cup {Str(<<>>), Str(<<" ">>), Str(<<"a", "b">>), NullString}

InitDuration ==
    /\ boundScrobblers = <<>>
    /\ ops = <<>>
    /\ session = NotTracked
    /\ \E str \in TimeStrings : util = <<[str |-> str, result |-> <<>>]>>
    /\ extension = NotTracked

\* Util.stringToSeconds(str) returns.
StringToSeconds ==
    /\ util # <<>>
    /\ util[1].result = <<>>
    /\ util' = <<[util[1] EXCEPT !.result = <<stringToSeconds(util[1].str)>>]>>
    /\ UNCHANGED <<boundScrobblers, ops, session, extensionVars>>

NextDuration == StringToSeconds

SpecDuration == InitDuration /\ [][NextDuration]_vars

----------------------------------------------------------------------------
(* The controller followed in the browser: the messages it handles, with
   scrobblers unbound in between by the callbacks of dispatches *)

InitExtension ==
    /\ boundScrobblers = <<>>
    /\ ops = <<>>
    /\ session = NotTracked
    /\ util = <<>>
    /\ extension = NewExtension

NextSignIn ==
    \/ \E id \in Ids \cup {UnknownId}, gotAuthUrl \in BOOLEAN :
           SignIn(id, gotAuthUrl)
    \/ \E id \in Ids \cup {UnknownId}, applied \in BOOLEAN,
          affectsAuth \in BOOLEAN :
           ApplyUserProperties(id, applied, affectsAuth)
    \/ \E s \in Regs : UnbindScrobbler(s)

SpecSignIn == InitExtension /\ [][NextSignIn]_vars

\* The extension started again and again, with scrobblers bound by an
\* ApplyUserProperties message at any moment.
NextStart ==
    \/ Start
    \/ \E o \in OpIds, i \in SlotIds, outcome \in CallOutcomes :
           GetSessionSettles(o, i, outcome)
    \/ BindScrobblersReturns
    \/ \E supported \in BOOLEAN : ShowAuthNotification(supported)
    \/ Restart
    \/ \E id \in Ids \cup {UnknownId}, applied \in BOOLEAN,
          affectsAuth \in BOOLEAN :
           ApplyUserProperties(id, applied, affectsAuth)

SpecStart == InitExtension /\ [][NextStart]_vars

----------------------------------------------------------------------------
(* Properties *)

Classified == {OK, ERROR_AUTH, ERROR_OTHER}

Slots(op) == 1..Len(op.slots)

\* Every scrobbler call of the operation has settled, none of them with an
\* unclassified error.
AllClassified(op) == \A i \in Slots(op) : op.slots[i].call \in Classified

\* Every callback of the operation has run to its end.
AllSettled(op) == \A i \in Slots(op) : Settled(op.slots[i])

\* The operation resolved with one result per target: the outcome of the
\* call to that target, in the order of the targets.
ResolvedWithAllResults(op) ==
    /\ op.status = "resolved"
    /\ Len(op.value) = Len(op.targets)
    /\ \A i \in Slots(op) : op.value[i] = op.slots[i].call

\* C1: a scrobble dispatched to N bound scrobblers of which k reject with a
\* classified error resolves with exactly N results, k classified failures
\* and N-k successes.
C1_ScrobbleResolvesWithAllResults ==
    \A o \in 1..Len(ops) :
        (ops[o].kind = "scrobble" /\ AllClassified(ops[o]))
            => ResolvedWithAllResults(ops[o])

\* C2: sendNowPlaying is dispatched to the scrobblers bound at that moment
\* and, when k of their calls reject with a classified error, resolves with
\* one result per dispatched scrobbler in dispatch order, the k failures as
\* their classified results; it does not reject, and a scrobbler unbound
\* meanwhile still has its result in the array.
C2_Results ==
    \A o \in 1..Len(ops) :
        ops[o].kind = "sendNowPlaying" =>
            /\ (\A i \in Slots(ops[o]) : ops[o].slots[i].call # INVALID)
                   => ops[o].status # "rejected"
            /\ (AllClassified(ops[o]) /\ AllSettled(ops[o]))
                   => ResolvedWithAllResults(ops[o])

C2_Dispatch ==
    /\ (ops = <<>> /\ ops' # <<>> /\ ops'[1].kind = "sendNowPlaying")
           => ops'[1].targets = boundScrobblers
    /\ (ops # <<>> /\ ops' # <<>>) => ops'[1].targets = ops[1].targets

C2_SendNowPlayingResults == [](C2_Results) /\ [][C2_Dispatch]_vars

\* C2 witness: a sendNowPlaying to three scrobblers resolved with three
\* results, an auth error among successes, after the failing scrobbler was
\* unbound during the dispatch.
C2_Witness ==
    /\ ops # <<>>
    /\ ops[1].kind = "sendNowPlaying"
    /\ ops[1].targets = <<1, 2, 3>>
    /\ ops[1].status = "resolved"
    /\ ops[1].value = <<OK, ERROR_AUTH, OK>>
    /\ ~isScrobblerInArray(2, boundScrobblers)

\* C3: after a scrobble to three bound scrobblers in which the second
\* rejects with an auth error while not ready for grant access, the second
\* is no longer bound and the first and the third still are.
C3_AuthErrorUnbindsOnScrobble ==
    \A o \in 1..Len(ops) :
        (/\ ops[o].kind = "scrobble"
         /\ Len(ops[o].targets) = 3
         /\ ops[o].slots[1].call = OK
         /\ ops[o].slots[2].call = ERROR_AUTH
         /\ ~ops[o].slots[2].ready
         /\ ops[o].slots[3].call = OK
         /\ AllSettled(ops[o]))
            => /\ ~isScrobblerInArray(ops[o].targets[2], boundScrobblers)
               /\ isScrobblerInArray(ops[o].targets[1], boundScrobblers)
               /\ isScrobblerInArray(ops[o].targets[3], boundScrobblers)

\* The array without the given object.
Without(array, scrobbler) == SelectSeq(array, LAMBDA s : s # scrobbler)

\* C4: when processErrorResult resumes for a bound scrobbler after an auth
\* error, the scrobbler is removed from the bound array, and nothing else
\* is, if isReadyForGrantAccess() answered false, and the array is left as
\* it was if it answered true; in both cases the promise is fulfilled with
\* the auth error.
C4_Step ==
    \A o \in 1..Len(ops) : \A i \in Slots(ops[o]) :
        (/\ ops[o].slots[i].state = "isReady"
         /\ ops' # <<>>
         /\ ops'[o].slots[i].state # "isReady"
         /\ isScrobblerInArray(ops[o].targets[i], boundScrobblers))
            => /\ ops[o].slots[i].ready => boundScrobblers' = boundScrobblers
               /\ ~ops[o].slots[i].ready =>
                      /\ boundScrobblers' =
                             Without(boundScrobblers, ops[o].targets[i])
                      /\ ~isScrobblerInArray(ops[o].targets[i],
                                             boundScrobblers')
               /\ ops'[o].slots[i].state = "fulfilled"
               /\ ops'[o].slots[i].value = ERROR_AUTH

C4_AuthErrorUnbindsIffNotReady == [][C4_Step]_vars

\* C4 witness: both cases in one sendNowPlaying: the first scrobbler was
\* ready and is still bound, the second was not and is unbound.
C4_Witness ==
    /\ ops # <<>>
    /\ ops[1].kind = "sendNowPlaying"
    /\ ops[1].targets = <<1, 2, 3>>
    /\ ops[1].slots[1].state = "fulfilled"
    /\ ops[1].slots[1].value = ERROR_AUTH
    /\ ops[1].slots[1].ready
    /\ ops[1].slots[2].state = "fulfilled"
    /\ ops[1].slots[2].value = ERROR_AUTH
    /\ ~ops[1].slots[2].ready
    /\ boundScrobblers = <<1, 3>>

\* C5: a call failing with ERROR_OTHER changes nothing in the bound array,
\* and its callback finishes at once, without waiting for
\* isReadyForGrantAccess().
C5_Step ==
    \A o \in 1..Len(ops) : \A i \in Slots(ops[o]) :
        (/\ ops[o].kind \in {"sendNowPlaying", "scrobble", "toggleLove"}
         /\ ops[o].slots[i].call = "pending"
         /\ ops' # <<>>
         /\ ops'[o].slots[i].call = ERROR_OTHER)
            => /\ boundScrobblers' = boundScrobblers
               /\ Settled(ops'[o].slots[i])

C5_OtherErrorKeepsBinding == [][C5_Step]_vars

\* C5 witness: a sendNowPlaying call failed with ERROR_OTHER, its result is
\* in, and all three scrobblers are still bound.
C5_Witness ==
    /\ ops # <<>>
    /\ ops[1].kind = "sendNowPlaying"
    /\ Len(ops[1].targets) = 3
    /\ ops[1].slots[2].call = ERROR_OTHER
    /\ ops[1].slots[2].state = "fulfilled"
    /\ ops[1].slots[2].value = ERROR_OTHER
    /\ Len(boundScrobblers) = 3

Dispatches == {"sendNowPlaying", "scrobble", "toggleLove"}

\* C6: a call of a dispatch that fails with an error that is neither
\* ERROR_AUTH nor ERROR_OTHER makes the aggregate reject: the promise of its
\* callback is rejected, never fulfilled with a result, and the step leaves
\* the bound array as it was.
C6_Rejects ==
    \A o \in 1..Len(ops) : \A i \in Slots(ops[o]) :
        (ops[o].kind \in Dispatches /\ ops[o].slots[i].call = INVALID)
            => /\ ops[o].slots[i].state = "rejected"
               /\ ops[o].status = "rejected"

C6_Step ==
    \A o \in 1..Len(ops) : \A i \in Slots(ops[o]) :
        (/\ ops[o].kind \in Dispatches
         /\ ops[o].slots[i].call = "pending"
         /\ ops' # <<>>
         /\ ops'[o].slots[i].call = INVALID)
            => boundScrobblers' = boundScrobblers

C6_UnclassifiedErrorRejects == [](C6_Rejects) /\ [][C6_Step]_vars

\* C6 witness: a toggleLove whose second call failed with an unclassified
\* error, after the first had succeeded, is rejected with the Error thrown
\* by processErrorResult, and the bound array still holds all three.
C6_Witness ==
    /\ ops # <<>>
    /\ ops[1].kind = "toggleLove"
    /\ Len(ops[1].targets) >= 2
    /\ ops[1].slots[1].call = OK
    /\ ops[1].slots[2].call = INVALID
    /\ ops[1].status = "rejected"
    /\ ops[1].value = <<InvalidResultError>>
    /\ Len(boundScrobblers) = 3

\* C7: a sendNowPlaying or scrobble whose calls fail with classified errors
\* only has not settled while one of its calls or callbacks is still
\* outstanding.
C7_AllSettleBarrier ==
    \A o \in 1..Len(ops) :
        (/\ ops[o].kind \in {"sendNowPlaying", "scrobble"}
         /\ \A i \in Slots(ops[o]) : ops[o].slots[i].call # INVALID
         /\ ops[o].status # "pending")
            => AllSettled(ops[o])

\* C8: bindAllScrobblers calls getSession() of every registered scrobbler,
\* going on to the next one whether the call succeeded or failed; an
\* iteration adds its scrobbler to the bound array if getSession()
\* succeeded and changes nothing otherwise; the operation never rejects and
\* resolves, after the last iteration, with the bound array.
C8_Attempts ==
    \A o \in 1..Len(ops) :
        ops[o].kind = "bindAllScrobblers" =>
            /\ ops[o].status # "rejected"
            /\ ops[o].status = "resolved" =>
                   \A i \in Slots(ops[o]) :
                       ops[o].slots[i].call \in CallOutcomes

C8_Step ==
    \A o \in 1..Len(ops) : \A i \in Slots(ops[o]) :
        (/\ ops[o].kind = "bindAllScrobblers"
         /\ ops[o].slots[i].call = "pending"
         /\ ops' # <<>>
         /\ ops'[o].slots[i].call # "pending")
            => /\ IF ops'[o].slots[i].call = OK
                  THEN Range(boundScrobblers') =
                           Range(boundScrobblers) \cup {ops[o].targets[i]}
                  ELSE boundScrobblers' = boundScrobblers
               /\ IF i < NumRegistered
                  THEN /\ ops'[o].status = "pending"
                       /\ ops'[o].slots[i + 1].call = "pending"
                  ELSE /\ ops'[o].status = "resolved"
                       /\ ops'[o].value = boundScrobblers'

C8_BindAllBindsEverySuccess == [](C8_Attempts) /\ [][C8_Step]_vars

\* C8 witness: a bindAllScrobblers that resolved with the bound array after
\* getSession() of the first scrobbler failed and those of the other two
\* succeeded.
C8_Witness ==
    /\ ops # <<>>
    /\ ops[1].kind = "bindAllScrobblers"
    /\ ops[1].status = "resolved"
    /\ ops[1].slots[1].call = ERROR_AUTH
    /\ ops[1].slots[2].call = OK
    /\ ops[1].slots[3].call = OK
    /\ boundScrobblers = <<2, 3>>
    /\ ops[1].value = boundScrobblers

\* C9: while getSession() of one registered scrobbler is unsettled during
\* bindAllScrobblers the others are not held back: getSession() of every
\* other registered scrobbler has been called.
C9_SlowSessionDoesNotBlock ==
    \A o \in 1..Len(ops) : \A i \in Slots(ops[o]) :
        (ops[o].kind = "bindAllScrobblers"
            /\ ops[o].slots[i].call = "pending")
            => \A j \in Slots(ops[o]) : ops[o].slots[j].call # "idle"

\* C10: binding a bound scrobbler and unbinding a scrobbler that is not
\* bound leave the bound array as it is, and bind, unbind, bind of a
\* scrobbler gives the same members as one bind, whatever the bound array.
C10_IdempotentToggles ==
    \A s \in Regs :
        LET b == boundScrobblers
        IN  /\ isScrobblerInArray(s, b) => bindScrobbler(b, s) = b
            /\ ~isScrobblerInArray(s, b) => unbindScrobbler(b, s) = b
            /\ Range(bindScrobbler(unbindScrobbler(bindScrobbler(b, s), s),
                                   s))
                   = Range(bindScrobbler(b, s))
            /\ Range(unbindScrobbler(bindScrobbler(b, s), s))
                   = Range(b) \ {s}

\* C10 witness: the first scrobbler was bound, unbound and bound again
\* while the other two stayed bound.
C10_Witness == boundScrobblers = <<2, 3, 1>>

\* C16: every scrobbler in the bound array holds a session: none whose
\* session was never acquired, or was cleared by a sign-out or by a change
\* of its properties, is bound.
C16_BoundHaveSession ==
    \A i \in 1..Len(boundScrobblers) : session[getId(boundScrobblers[i])]

\* The array without the entries that have the given ID.
WithoutId(array, id) == SelectSeq(array, LAMBDA s : getId(s) # id)

\* C11: unbindScrobbler(s) removes the bound entry whose ID is the ID of s
\* and no other entry, whether or not s is the same object as that entry.
C11_UnbindById ==
    \A s \in Objects :
        unbindScrobbler(boundScrobblers, s)
            = WithoutId(boundScrobblers, getId(s))

\* C12: toggleLove calls toggleLove() of every registered scrobbler whose
\* canLoveSong() is true, bound or not, once each, and of no other; when
\* all the calls settle with classified results it resolves with one result
\* per such scrobbler.
C12_Dispatch ==
    \A canLove \in [Regs -> BOOLEAN] :
        ToggleLove(canLove) =>
            LET op == ops'[1]
            IN  /\ op.kind = "toggleLove"
                /\ Range(op.targets) = {s \in Regs : canLove[s]}
                /\ Len(op.targets) = Cardinality({s \in Regs : canLove[s]})
                /\ \A i \in Slots(op) : op.slots[i].call = "pending"

C12_Results ==
    \A o \in 1..Len(ops) :
        (ops[o].kind = "toggleLove" /\ AllClassified(ops[o])
            /\ AllSettled(ops[o]))
            => ResolvedWithAllResults(ops[o])

C12_ToggleLoveTargets == [](C12_Results) /\ [][C12_Dispatch]_vars

\* C12 witness: with only the second scrobbler bound, a toggleLove to the
\* first and the third, which can love and are not bound, resolved with
\* their two results.
C12_Witness ==
    /\ ops # <<>>
    /\ ops[1].kind = "toggleLove"
    /\ ops[1].targets = <<1, 3>>
    /\ boundScrobblers = <<2>>
    /\ ops[1].status = "resolved"
    /\ ops[1].value = <<OK, ERROR_OTHER>>

\* C13: getSongInfo calls getSongInfo() of every registered scrobbler whose
\* canLoadSongInfo() is true and of no other; it never rejects; a call that
\* succeeded gives the song info and a call that failed, with whatever
\* error, gives null; once all calls have settled it is resolved with one
\* entry per such scrobbler; and no callback changes the bound array.
C13_Dispatch ==
    \A canLoad \in [Regs -> BOOLEAN] :
        GetSongInfo(canLoad) =>
            LET op == ops'[1]
            IN  /\ op.kind = "getSongInfo"
                /\ Range(op.targets) = {s \in Regs : canLoad[s]}
                /\ Len(op.targets) = Cardinality({s \in Regs : canLoad[s]})
                /\ \A i \in Slots(op) : op.slots[i].call = "pending"

C13_Entry(slot) ==
    IF slot.call = OK THEN SONG_INFO ELSE NoSongInfo

C13_Results ==
    \A o \in 1..Len(ops) :
        ops[o].kind = "getSongInfo" =>
            /\ ops[o].status # "rejected"
            /\ \A i \in Slots(ops[o]) :
                   ops[o].slots[i].call # "pending" =>
                       /\ ops[o].slots[i].state = "fulfilled"
                       /\ ops[o].slots[i].value = C13_Entry(ops[o].slots[i])
            /\ (\A i \in Slots(ops[o]) : ops[o].slots[i].call # "pending")
                   => /\ ops[o].status = "resolved"
                      /\ Len(ops[o].value) = Len(ops[o].targets)
                      /\ \A i \in Slots(ops[o]) :
                             ops[o].value[i] = C13_Entry(ops[o].slots[i])

C13_Step ==
    \A o \in 1..Len(ops) : \A i \in Slots(ops[o]) :
        (/\ ops[o].kind = "getSongInfo"
         /\ ops' # <<>>
         /\ ops'[o].slots[i] # ops[o].slots[i])
            => boundScrobblers' = boundScrobblers

C13_GetSongInfoDegradesToNull ==
    [](C13_Results) /\ [][C13_Dispatch /\ C13_Step]_vars

\* C13 witness: a getSongInfo to the three scrobblers, all bound, whose
\* calls succeeded, failed with an auth error and failed with an
\* unclassified error resolved with the song info and two nulls, and the
\* three are still bound.
C13_Witness ==
    /\ ops # <<>>
    /\ ops[1].kind = "getSongInfo"
    /\ ops[1].targets = <<1, 2, 3>>
    /\ ops[1].slots[1].call = OK
    /\ ops[1].slots[2].call = ERROR_AUTH
    /\ ops[1].slots[3].call = INVALID
    /\ ops[1].status = "resolved"
    /\ ops[1].value = <<SONG_INFO, NoSongInfo, NoSongInfo>>
    /\ boundScrobblers = <<1, 2, 3>>

\* The operation is a scrobbleWithScrobblers all of whose IDs are IDs of
\* registered scrobblers.
WithKnownIds(op) ==
    /\ op.kind = "scrobbleWithScrobblers"
    /\ \A i \in Slots(op) : op.targets[i] # NULL

\* C14: scrobbleWithScrobblers calls scrobble() of the registered scrobbler
\* of every listed ID, once per listed ID, bound or not, and of no other
\* scrobbler; classified failures become results of the aggregate, and a
\* scrobbler whose call failed with an auth error while it was not ready
\* for grant access is unbound, as specified for scrobble.
C14_Dispatch ==
    \A scrobblerIds \in IdLists :
        (ScrobbleWithScrobblers(scrobblerIds)
            /\ \A i \in 1..Len(scrobblerIds) : scrobblerIds[i] \in Ids)
            => LET op == ops'[1]
               IN  /\ Len(op.targets) = Len(scrobblerIds)
                   /\ \A i \in Slots(op) :
                          /\ op.targets[i] \in Regs
                          /\ getId(op.targets[i]) = scrobblerIds[i]
                          /\ op.slots[i].call = "pending"

C14_Results ==
    \A o \in 1..Len(ops) :
        (WithKnownIds(ops[o]) /\ AllClassified(ops[o]))
            => /\ ResolvedWithAllResults(ops[o])
               /\ \A i \in Slots(ops[o]) :
                      (ops[o].slots[i].call = ERROR_AUTH
                          /\ ~ops[o].slots[i].ready)
                          => ~isScrobblerInArray(ops[o].targets[i],
                                                 boundScrobblers)

C14_ScrobbleWithScrobblers == [](C14_Results) /\ [][C14_Dispatch]_vars

\* The error the request is to be rejected with for an ID of no registered
\* scrobbler.
UnknownScrobblerIdError == "Error: unknown scrobbler ID"

\* C15: a scrobbleWithScrobblers whose list holds an ID of no registered
\* scrobbler is rejected with the unknown-ID error, no method of the
\* missing scrobbler is called, and the bound array stays as it is.
C15_Rejected ==
    \A o \in 1..Len(ops) :
        (ops[o].kind = "scrobbleWithScrobblers"
            /\ \E i \in Slots(ops[o]) : ops[o].targets[i] = NULL)
            => /\ ops[o].status = "rejected"
               /\ ops[o].value = <<UnknownScrobblerIdError>>
               /\ \A i \in Slots(ops[o]) :
                      ops[o].targets[i] = NULL =>
                          ops[o].slots[i].call = "idle"

C15_Dispatch ==
    \A scrobblerIds \in IdLists :
        (ScrobbleWithScrobblers(scrobblerIds)
            /\ \E i \in 1..Len(scrobblerIds) : scrobblerIds[i] \notin Ids)
            => boundScrobblers' = boundScrobblers

C15_UnknownIdIsDefinedError == [](C15_Rejected) /\ [][C15_Dispatch]_vars

\* C17: when the callbacks of two operations in flight resume after an auth
\* error for the same scrobbler that is not ready for grant access, in
\* whatever order, each of them leaves the bound array without that
\* scrobbler and with every other entry in place, each fulfils its promise
\* with the auth error, neither operation is rejected, and each resolves
\* with the results of all its calls.
C17_Step ==
    \A o \in 1..Len(ops) : \A i \in Slots(ops[o]) :
        (/\ Len(ops') = Len(ops)
         /\ ops[o].slots[i].state = "isReady"
         /\ ops'[o].slots[i].state # "isReady")
            => /\ boundScrobblers' =
                      Without(boundScrobblers, ops[o].targets[i])
               /\ ops'[o].slots[i].state = "fulfilled"
               /\ ops'[o].slots[i].value = ERROR_AUTH

C17_Both ==
    /\ \A o \in 1..Len(ops) :
           /\ ops[o].status # "rejected"
           /\ AllSettled(ops[o]) => ResolvedWithAllResults(ops[o])
    /\ \A i \in 1..NumRegistered : \A j \in 1..NumRegistered :
           (/\ Len(ops) = 2
            /\ i \in Slots(ops[1])
            /\ j \in Slots(ops[2])
            /\ ops[1].targets[i] = ops[2].targets[j]
            /\ ops[1].slots[i].value = ERROR_AUTH
            /\ ops[2].slots[j].value = ERROR_AUTH
            /\ ops[1].slots[i].state = "fulfilled"
            /\ ops[2].slots[j].state = "fulfilled")
               => ~isScrobblerInArray(ops[1].targets[i], boundScrobblers)

C17_RacingUnbindsAreHarmless == [](C17_Both) /\ [][C17_Step]_vars

\* C17 witness: a sendNowPlaying to three bound scrobblers and a toggleLove
\* in flight together both got an auth error for the second scrobbler; both
\* callbacks have run, both operations resolved, and the bound array is
\* the first and the third scrobbler.
C17_Witness ==
    /\ Len(ops) = 2
    /\ ops[1].kind = "sendNowPlaying"
    /\ ops[2].kind = "toggleLove"
    /\ ops[1].targets = <<1, 2, 3>>
    /\ ops[2].targets = <<2, 3>>
    /\ ops[1].status = "resolved"
    /\ ops[2].status = "resolved"
    /\ ops[1].value = <<OK, ERROR_AUTH, OK>>
    /\ ops[2].value = <<ERROR_AUTH, OK>>
    /\ boundScrobblers = <<1, 3>>

\* C18: every entry of the bound array is one of the registered scrobblers,
\* which are the same throughout, and so has the ID of a registered
\* scrobbler, whatever the manager's operations and the controller's
\* messages, with known or unknown IDs, have done.
C18_BoundAreRegistered ==
    /\ Regs = 1..NumRegistered
    /\ \A i \in 1..Len(boundScrobblers) :
           /\ boundScrobblers[i] \in Regs
           /\ getId(boundScrobblers[i]) \in Ids

\* C18 witness: the third scrobbler was bound by a message and the other
\* two by a bindAllScrobblers that has resolved.
C18_Witness ==
    /\ ops # <<>>
    /\ ops[1].kind = "bindAllScrobblers"
    /\ ops[1].status = "resolved"
    /\ boundScrobblers = <<3, 1, 2>>

\* C20: no two entries of the bound array have the same ID.
C20_OnePerId ==
    \A i \in 1..Len(boundScrobblers) : \A j \in 1..Len(boundScrobblers) :
        i # j => getId(boundScrobblers[i]) # getId(boundScrobblers[j])

\* C20 witness: the second scrobbler was bound when a bindAllScrobblers, in
\* which every getSession() succeeded, bound it again along with the other
\* two.
C20_Witness ==
    /\ ops # <<>>
    /\ ops[1].kind = "bindAllScrobblers"
    /\ ops[1].status = "resolved"
    /\ \A i \in Slots(ops[1]) : ops[1].slots[i].call = OK
    /\ boundScrobblers = <<2, 1, 3>>

\* The seconds of hours, minutes and seconds given as numbers.
C19_Seconds(fieldList) ==
    IF Len(fieldList) = 1 THEN fieldList[1]
    ELSE IF Len(fieldList) = 2 THEN fieldList[1] * 60 + fieldList[2]
    ELSE fieldList[1] * 3600 + fieldList[2] * 60 + fieldList[3]

\* The string of the call is the given text and the call has returned.
C19_Returned(chars) ==
    /\ util # <<>>
    /\ util[1].result # <<>>
    /\ util[1].str = Str(chars)

\* C19: stringToSeconds of a duration written as h:mm:ss, mm:ss or ss,
\* with spaces around it or not, is hours*3600 + minutes*60 + seconds, and
\* that number negated when a minus sign is in front; it is 0 for the
\* empty string and for null; and the five example strings give 4230, 4230,
\* -70, 320 and 20.
C19_Law ==
    \A negative \in BOOLEAN, fieldList \in FieldLists :
        \A before \in Pads, after \in Pads :
            C19_Returned(Formatted(negative, fieldList, before, after))
                => util[1].result =
                       <<IF negative THEN -C19_Seconds(fieldList)
                                     ELSE C19_Seconds(fieldList)>>

C19_Examples ==
    /\ C19_Returned(<<"0", "1", ":", "1", "0", ":", "3", "0">>)
           => util[1].result = <<4230>>
    /\ C19_Returned(<<"0", "1", ":", "1", "0", ":", "3", "0", " ">>)
           => util[1].result = <<4230>>
    /\ C19_Returned(<<"-", "0", "1", ":", "1", "0">>)
           => util[1].result = <<-70>>
    /\ C19_Returned(<<"0", "5", ":", "2", "0">>)
           => util[1].result = <<320>>
    /\ C19_Returned(<<"2", "0">>) => util[1].result = <<20>>
    /\ C19_Returned(<<>>) => util[1].result = <<0>>
    /\ (util # <<>> /\ util[1].result # <<>> /\ util[1].str = NullString)
           => util[1].result = <<0>>

C19_StringToSeconds == C19_Law /\ C19_Examples

\* C19 witness: stringToSeconds('-01:10') returned -70.
C19_Witness ==
    /\ util # <<>>
    /\ util[1].str = Str(<<"-", "0", "1", ":", "1", "0">>)
    /\ util[1].result = <<-70>>

\* C21: a SignIn request for a registered scrobbler whose getAuthUrl()
\* succeeds binds the scrobbler and opens its auth tab, showing no error;
\* when getAuthUrl() fails the bound array stays as it is, no tab is
\* opened and a sign-in error is shown; a request with an unknown ID
\* changes neither the bound array nor anything in the browser; and in
\* every case the promise returned to the sender is fulfilled.
C21_Step ==
    \A id \in Ids \cup {UnknownId}, gotAuthUrl \in BOOLEAN :
        SignIn(id, gotAuthUrl) =>
            /\ extension'.reply = "undefined"
            /\ extension'.pc = extension.pc
            /\ extension'.authDisplayCount = extension.authDisplayCount
            /\ extension'.authNotifications = extension.authNotifications
            /\ extension'.accountsTabs = extension.accountsTabs
            /\ IF id \notin Ids
               THEN /\ boundScrobblers' = boundScrobblers
                    /\ extension'.authTabs = extension.authTabs
                    /\ extension'.signInErrors = extension.signInErrors
               ELSE IF gotAuthUrl
               THEN /\ Range(boundScrobblers') =
                           Range(boundScrobblers) \cup {registeredScrobblers[id]}
                    /\ extension'.authTabs = Append(extension.authTabs, id)
                    /\ extension'.signInErrors = extension.signInErrors
               ELSE /\ boundScrobblers' = boundScrobblers
                    /\ extension'.authTabs = extension.authTabs
                    /\ extension'.signInErrors =
                           Append(extension.signInErrors, id)

C21_SignInBindsOnlyWithAuthUrl == [][C21_Step]_vars

\* C21 witness: after a SignIn for the first scrobbler whose getAuthUrl()
\* succeeded and one for the second whose getAuthUrl() failed, the first
\* is bound with its auth tab open, the second is not bound and has its
\* error shown, and the sender got its reply.
C21_Witness ==
    /\ extension # NotTracked
    /\ extension.authTabs = <<1>>
    /\ extension.signInErrors = <<2>>
    /\ boundScrobblers = <<1>>
    /\ extension.reply = "undefined"

\* How many times the auth notification, or the accounts tab in its place,
\* has been shown.
C22_Shown(ext) == ext.authNotifications + ext.accountsTabs

\* C22: the auth notification, or the accounts tab where notifications are
\* not supported, is shown only by a start whose bindAllScrobblers resolved
\* with nothing bound and only while the stored count is below 3; each
\* showing adds exactly one to the stored count; the count never goes down;
\* and over all the starts it is shown 3 times at most.
C22_Counted ==
    /\ C22_Shown(extension) <= 3
    /\ extension.authDisplayCount = C22_Shown(extension)

C22_Step ==
    /\ extension'.authDisplayCount >= extension.authDisplayCount
    /\ C22_Shown(extension') >= C22_Shown(extension)
    /\ C22_Shown(extension') # C22_Shown(extension) =>
           /\ extension.pc = "notify"
           /\ extension.authDisplayCount < 3
           /\ C22_Shown(extension') = C22_Shown(extension) + 1
           /\ extension'.authDisplayCount = extension.authDisplayCount + 1
    /\ (extension.pc # "notify" /\ extension'.pc = "notify") =>
           /\ ops # <<>>
           /\ ops[1].kind = "bindAllScrobblers"
           /\ ops[1].status = "resolved"
           /\ ops[1].value = <<>>
           /\ \A i \in Slots(ops[1]) : ops[1].slots[i].call # OK

C22_AuthNotificationAtMostThrice == [](C22_Counted) /\ [][C22_Step]_vars

\* C22 witness: after three starts that bound nothing, two of which showed
\* the notification and one of which opened the accounts tab, a fourth
\* start that bound nothing has reached showAuthNotification with a stored
\* count of 3.
C22_Witness ==
    /\ extension # NotTracked
    /\ extension.pc = "notify"
    /\ extension.authDisplayCount = 3
    /\ extension.authNotifications = 2
    /\ extension.accountsTabs = 1
    /\ boundScrobblers = <<>>

====
